---- MODULE Spec2Model ----
(***************************************************************************)
(* The item store of http-trace-example and the request pipeline around    *)
(* it.  The repository holds three builds of the same server:              *)
(*   "main.go"   gin, sync.Map + atomic counter, slog and recovery         *)
(*               middleware, /fail and /panic routes  (src/main.go)        *)
(*   "part_001"  net/http, map + RWMutex, no logging   (src/unnamed/part_001)*)
(*   "part_002"  net/http, map + RWMutex, logging middleware               *)
(*                                                     (src/unnamed/part_002)*)
(* A behaviour is one server process of one build serving requests of      *)
(* concurrent callers; a step is one atomic access to the shared store or  *)
(* counter together with the request-local code around it.                 *)
(***************************************************************************)
EXTENDS Integers, Sequences, FiniteSets, TLC

VARIABLES variant, store, idSeq, req, issued, created, touched, lastId, snaps,
          deleted, lastName, mutated

vars == <<variant, store, idSeq, req, issued, created, touched, lastId, snaps,
          deleted, lastName, mutated>>

(* ------------------------------ bounds --------------------------------- *)
MaxCallers == 2
MaxRequests == 4
MaxFairRequests == 3

Callers == 1..MaxCallers
Variants == {"main.go", "part_001", "part_002"}
Keys == 1..MaxRequests

(* --------------------------- program constants ------------------------- *)
StatusOK == 200
StatusCreated == 201
StatusNoContent == 204
StatusBadRequest == 400
StatusNotFound == 404
StatusInternalServerError == 500

(* ------------------------------ inputs --------------------------------- *)
Names == {"widget", "gadget"}
RawIds == {<<"1">>, <<"2">>, <<"a", "b", "c">>}
NoPayload == [valid |-> FALSE, name |-> ""]
Payloads == {[valid |-> TRUE, name |-> n] : n \in Names} \cup {NoPayload}
Ops == {"create", "list", "get", "update", "delete", "fail", "panic"}

(* ------------------------------- types --------------------------------- *)
Item(id, name) == [ID |-> id, Name |-> name]
NoItem == Item(0, "")
EmptySpan == [events |-> <<>>, status |-> "Unset", description |-> ""]
NoBody == [kind |-> "none", error |-> "", item |-> NoItem, items |-> <<>>]
IdleReq ==
  [pc |-> "Idle", at |-> "-", op |-> "none", rawId |-> <<>>, payload |-> NoPayload,
   trace |-> 0, id |-> 0, item |-> NoItem, items |-> <<>>, visited |-> {},
   status |-> 0, resp |-> NoBody, written |-> 0, span |-> EmptySpan,
   logs |-> <<>>, snapshot |-> TRUE, afterDelete |-> FALSE]

Terminal(r) == r.pc \in {"Completed", "Failed"}

(* ------------------------------ strconv -------------------------------- *)
Digits == {"0", "1", "2", "3", "4", "5", "6", "7", "8", "9"}
DigitVal(ch) ==
  CASE ch = "0" -> 0 [] ch = "1" -> 1 [] ch = "2" -> 2 [] ch = "3" -> 3
    [] ch = "4" -> 4 [] ch = "5" -> 5 [] ch = "6" -> 6 [] ch = "7" -> 7
    [] ch = "8" -> 8 [] ch = "9" -> 9

RECURSIVE ParseDigits(_, _)
ParseDigits(s, acc) ==
  IF s = <<>> THEN acc ELSE ParseDigits(Tail(s), acc * 10 + DigitVal(Head(s)))

Atoi(s) ==
  LET signed == s # <<>> /\ Head(s) \in {"+", "-"}
      digits == IF signed THEN Tail(s) ELSE s
  IN  IF digits = <<>> \/ \E i \in 1..Len(digits) : digits[i] \notin Digits
      THEN [ok |-> FALSE, val |-> 0]
      ELSE [ok |-> TRUE,
            val |-> IF signed /\ Head(s) = "-"
                    THEN 0 - ParseDigits(digits, 0)
                    ELSE ParseDigits(digits, 0)]

(* --------------------------- the shared store -------------------------- *)
EmptyStore == [k \in {} |-> NoItem]
(* the type assertion lost: the zero Item instead of the stored one *)
LoadZeroValue(s, k) == [ok |-> k \in DOMAIN s, val |-> NoItem]
Load(s, k) ==
  IF k \in DOMAIN s THEN [ok |-> TRUE, val |-> s[k]] ELSE [ok |-> FALSE, val |-> NoItem]
(* the delete left out *)
DeleteKeyNoop(s, k) == s
StoreKV(s, k, v) == [x \in DOMAIN s \cup {k} |-> IF x = k THEN v ELSE s[x]]
DeleteKey(s, k) == [x \in DOMAIN s \ {k} |-> s[x]]
Contents(s) == {s[k] : k \in DOMAIN s}
SeqToSet(q) == {q[i] : i \in 1..Len(q)}

(* ------------------------ routing (method, path) ----------------------- *)
Method(op) ==
  CASE op = "create" -> "POST" [] op = "update" -> "PUT" [] op = "delete" -> "DELETE"
    [] OTHER -> "GET"
FullPath(op) ==
  CASE op \in {"create", "list"} -> "/items"
    [] op \in {"get", "update", "delete"} -> "/items/:id"
    [] op = "fail" -> "/fail"
    [] OTHER -> "/panic"
URLPath(op, rawId) == IF op \in {"create", "list"} THEN <<"/items">> ELSE <<"/items/">> \o rawId

(* ------------------------------ responses ------------------------------ *)
JSON(r, code, item) ==
  [r EXCEPT !.status = code, !.written = @ + 1,
            !.resp = [NoBody EXCEPT !.kind = "item", !.item = item]]
JSONList(r, code, items) ==
  [r EXCEPT !.status = code, !.written = @ + 1,
            !.resp = [NoBody EXCEPT !.kind = "items", !.items = items]]
Status(r, code) == [r EXCEPT !.status = code, !.written = @ + 1]

(* the failed status only above 500 *)
respondErrorAbove500(r, msg, code) ==
  [r EXCEPT !.span = [events |-> Append(@.events, [msg |-> msg, attrs |-> {}]),
                      status |-> IF code > 500 THEN "Error" ELSE @.status,
                      description |-> IF code > 500 THEN msg ELSE @.description],
            !.status = code, !.written = @ + 1,
            !.resp = [NoBody EXCEPT !.kind = "json-error", !.error = msg]]

(* main.go: the error event always, the failed status only for 5xx *)
respondError(r, msg, code) ==
  [r EXCEPT !.span = [events |-> Append(@.events, [msg |-> msg, attrs |-> {}]),
                      status |-> IF code >= 500 THEN "Error" ELSE @.status,
                      description |-> IF code >= 500 THEN msg ELSE @.description],
            !.status = code, !.written = @ + 1,
            !.resp = [NoBody EXCEPT !.kind = "json-error", !.error = msg]]

(* part_001, part_002: the error event and the failed status, whatever the code *)
StatusText(code) ==
  CASE code = StatusBadRequest -> "Bad Request"
    [] code = StatusNotFound -> "Not Found"
    [] OTHER -> "Internal Server Error"
respondErrorMux(r, msg, code) ==
  [r EXCEPT !.span = [events |-> Append(@.events,
                          [msg |-> msg, attrs |-> {<<"http.status_text", StatusText(code)>>}]),
                      status |-> "Error",
                      description |-> msg],
            !.status = code, !.written = @ + 1,
            !.resp = [NoBody EXCEPT !.kind = "text-error", !.error = msg]]

(* ------------------------------ middleware ----------------------------- *)
LogLine(level, msg, keys, method, path, status, trace) ==
  [level |-> level, msg |-> msg, keys |-> keys, method |-> method, path |-> path,
   status |-> status, trace |-> trace]

slogWithTrace(r) ==
  [r EXCEPT !.logs = Append(@, LogLine("INFO", "request",
                        {"method", "path", "status", "trace_id", "span_id"},
                        Method(r.op), <<FullPath(r.op)>>, r.status, r.trace))]

loggingMiddleware(r) ==
  [r EXCEPT !.logs = Append(@, LogLine("PRINT", "",
                        {"method", "path", "status", "trace_id"},
                        Method(r.op), URLPath(r.op, r.rawId), r.status, r.trace))]

(* the handler returned normally: back out through the middleware chain *)
Return(r) ==
  LET logged == CASE variant = "main.go" -> slogWithTrace(r)
                  [] variant = "part_002" -> loggingMiddleware(r)
                  [] OTHER -> r
  IN  [logged EXCEPT !.pc = "Completed", !.at = "-"]

EscapeAttrs ==
  {<<"exception.escaped", "true">>, <<"exception.type", "string">>,
   <<"exception.message", "simulated panic">>, <<"exception.stacktrace", "goroutine stack">>}

(* the recovery that records and logs the panic but writes no response *)
RecoveredNoAbort(r) ==
  LET err == "panic: simulated panic"
      spanned == [r EXCEPT !.span = [events |-> Append(@.events, [msg |-> err, attrs |-> EscapeAttrs]),
                                     status |-> "Error", description |-> "panic"]]
      logged == [spanned EXCEPT !.logs = Append(@, LogLine("ERROR", "panic recovered",
                                        {"error", "trace_id", "span_id"}, "", <<>>, 0, r.trace))]
  IN  [logged EXCEPT !.pc = "Failed", !.at = "-"]

Recovered(r) ==
  LET err == "panic: simulated panic"
      spanned == [r EXCEPT !.span = [events |-> Append(@.events, [msg |-> err, attrs |-> EscapeAttrs]),
                                     status |-> "Error", description |-> "panic"]]
      logged == [spanned EXCEPT !.logs = Append(@, LogLine("ERROR", "panic recovered",
                                        {"error", "trace_id", "span_id"}, "", <<>>, 0, r.trace))]
  IN  [logged EXCEPT !.status = StatusInternalServerError, !.written = @ + 1,
                     !.pc = "Failed", !.at = "-"]

(* ------------------------------- ghosts -------------------------------- *)
(* created: id -> the name sent by the create request that was answered with
   that id; lastId[c]: the id of the last create answered to caller c;
   touched: the ids an update or a delete has written; snaps[c]: the values the
   store has had since caller c's list request in flight was dispatched. *)
Listing(r) == r.op = "list" /\ r.pc = "Running"
Observe(newStore) ==
  snaps' = [d \in Callers |-> IF Listing(req[d]) THEN snaps[d] \cup {newStore} ELSE snaps[d]]

(* What the step of caller c just taken shows, read off the request before
   and after it.  mutated[c]: caller c's request in flight has changed the
   store or the counter.  deleted: id -> a delete of the id was answered 204,
   the flag telling whether one such delete took effect with no other request
   in flight.  lastName: id -> the name sent by the last update of the id that
   was answered 200.  req[c].afterDelete: the request was dispatched after a
   delete of its id had been answered 204. *)
Track(c) ==
  LET alone == \A d \in Callers \ {c} : req[d].pc \notin {"Running", "Recovering"}
      answered == req[c].pc = "Running" /\ req'[c].pc = "Completed"
      id == req'[c].id
  IN  /\ mutated' = [mutated EXCEPT ![c] =
                       IF req[c].pc \notin {"Running", "Recovering"} THEN FALSE
                       ELSE @ \/ store' # store \/ idSeq' # idSeq]
      /\ deleted' = IF answered /\ req[c].op = "delete" /\ req'[c].status = StatusNoContent
                    THEN StoreKV(deleted, id, alone \/ (id \in DOMAIN deleted /\ deleted[id]))
                    ELSE deleted
      /\ lastName' = IF answered /\ req[c].op = "update" /\ req'[c].status = StatusOK
                     THEN StoreKV(lastName, id, req[c].payload.name)
                     ELSE lastName

(* ------------------------------- Init ---------------------------------- *)
Init ==
  /\ variant \in Variants
  /\ store = EmptyStore
  /\ idSeq = 0
  /\ req = [c \in Callers |-> IdleReq]
  /\ issued = 0
  /\ created = EmptyStore
  /\ touched = {}
  /\ lastId = [c \in Callers |-> 0]
  /\ snaps = [c \in Callers |-> {}]
  /\ deleted = EmptyStore
  /\ lastName = EmptyStore
  /\ mutated = [c \in Callers |-> FALSE]

Gin == variant = "main.go"
Mux == variant \in {"part_001", "part_002"}
At(c, op, at) == req[c].pc = "Running" /\ req[c].op = op /\ req[c].at = at

(* a caller sends its next request once the previous one was answered *)
Dispatch(c) ==
  /\ req[c].pc \in {"Idle", "Completed", "Failed"}
  /\ issued < MaxRequests
  /\ \E op \in Ops, rawId \in RawIds \cup {<<>>}, payload \in Payloads :
       /\ op \in {"fail", "panic"} => Gin
       /\ (rawId # <<>>) <=> (op \in {"get", "update", "delete"})
       /\ (payload # NoPayload) => (op \in {"create", "update"})
       /\ req' = [req EXCEPT ![c] = [IdleReq EXCEPT !.pc = "Running", !.at = "start",
                                       !.op = op, !.rawId = rawId, !.payload = payload,
                                       !.trace = c,
                                       !.afterDelete = Atoi(rawId).ok /\
                                                       Atoi(rawId).val \in DOMAIN deleted]]
       /\ snaps' = [snaps EXCEPT ![c] = IF op = "list" THEN {store} ELSE {}]
  /\ issued' = issued + 1
  /\ UNCHANGED <<variant, store, idSeq, created, touched, lastId>>
  /\ Track(c)

(* ----------------------- handlers of main.go (gin) --------------------- *)
(* the name not assigned *)
RenamedKeep(item, name) == item
(* a fresh Item{Name: in.Name} instead of the loaded one *)
RenamedFresh(item, name) == [ID |-> 0, Name |-> name]
(* item.Name = in.Name *)
Renamed(item, name) == [item EXCEPT !.Name = name]

(* the counter read, not advanced *)
NextIdLoad(seq) == seq
(* idSeq.Add(1) / idSeq++ under storeMu: the value after the increment *)
NextId(seq) == seq + 1

(* idSeq.Add(1) ahead of ShouldBindJSON *)
createItemAddFirst(c) ==
  /\ Gin /\ At(c, "create", "start")
  /\ idSeq' = NextId(idSeq)
  /\ IF ~req[c].payload.valid
     THEN req' = [req EXCEPT ![c] = Return(respondError(@, "invalid character", StatusBadRequest))]
     ELSE req' = [req EXCEPT ![c] = [@ EXCEPT !.at = "allocated", !.id = idSeq',
                                            !.item = Item(idSeq', req[c].payload.name)]]
  /\ UNCHANGED <<variant, store, issued, created, touched, lastId, snaps>>
  /\ Track(c)

(* ShouldBindJSON, then idSeq.Add(1) *)
createItemAdd(c) ==
  /\ Gin /\ At(c, "create", "start")
  /\ IF ~req[c].payload.valid
     THEN /\ req' = [req EXCEPT ![c] = Return(respondError(@, "invalid character", StatusBadRequest))]
          /\ UNCHANGED idSeq
     ELSE /\ idSeq' = NextId(idSeq)
          /\ req' = [req EXCEPT ![c] = [@ EXCEPT !.at = "allocated", !.id = idSeq',
                                                !.item = Item(idSeq', req[c].payload.name)]]
  /\ UNCHANGED <<variant, store, issued, created, touched, lastId, snaps>>
  /\ Track(c)

(* store.Store(id, item), then c.JSON(201, item) *)
createItemStore(c) ==
  /\ Gin /\ At(c, "create", "allocated")
  /\ store' = StoreKV(store, req[c].id, req[c].item)
  /\ req' = [req EXCEPT ![c] = Return(JSON(@, StatusCreated, @.item))]
  /\ created' = StoreKV(created, req[c].id, req[c].payload.name)
  /\ lastId' = [lastId EXCEPT ![c] = req[c].id]
  /\ Observe(store')
  /\ UNCHANGED <<variant, idSeq, issued, touched>>
  /\ Track(c)

(* store.Range: every key is read once, at some instant of the call, in no
   particular order; the callback appends what it is handed.  After the last
   key c.JSON(200, items). *)
listItems(c) ==
  /\ Gin /\ At(c, "list", "start")
  /\ \E k \in Keys \ req[c].visited :
       LET l == Load(store, k)
           items == IF l.ok THEN Append(req[c].items, l.val) ELSE req[c].items
           visited == req[c].visited \cup {k}
           r == [req[c] EXCEPT !.items = items, !.visited = visited]
       IN  IF visited = Keys
           THEN /\ req' = [req EXCEPT ![c] =
                             [Return(JSONList(r, StatusOK, items)) EXCEPT
                                !.snapshot = SeqToSet(items) \in {Contents(s) : s \in snaps[c]}]]
                /\ snaps' = [snaps EXCEPT ![c] = {}]
           ELSE /\ req' = [req EXCEPT ![c] = r]
                /\ UNCHANGED snaps
  /\ UNCHANGED <<variant, store, idSeq, issued, created, touched, lastId>>
  /\ Track(c)

getItem(c) ==
  /\ Gin /\ At(c, "get", "start")
  /\ LET a == Atoi(req[c].rawId)
         l == Load(store, a.val)
     IN  req' = [req EXCEPT ![c] =
                   IF ~a.ok THEN Return(respondError(@, "invalid syntax", StatusBadRequest))
                   ELSE IF ~l.ok THEN Return(respondError(@, "not found", StatusNotFound))
                   ELSE Return(JSON(@, StatusOK, l.val))]
  /\ UNCHANGED <<variant, store, idSeq, issued, created, touched, lastId, snaps>>
  /\ Track(c)

(* strconv.Atoi, then store.Load(id) *)
updateItemLoad(c) ==
  /\ Gin /\ At(c, "update", "start")
  /\ LET a == Atoi(req[c].rawId)
         l == Load(store, a.val)
     IN  req' = [req EXCEPT ![c] =
                   IF ~a.ok THEN Return(respondError(@, "invalid syntax", StatusBadRequest))
                   ELSE IF ~l.ok THEN Return(respondError(@, "not found", StatusNotFound))
                   ELSE [@ EXCEPT !.at = "loaded", !.id = a.val, !.item = l.val]]
  /\ UNCHANGED <<variant, store, idSeq, issued, created, touched, lastId, snaps>>
  /\ Track(c)

(* ShouldBindJSON, item.Name = in.Name, store.Store(id, item), c.JSON(200, item) *)
updateItemStore(c) ==
  /\ Gin /\ At(c, "update", "loaded")
  /\ IF ~req[c].payload.valid
     THEN /\ req' = [req EXCEPT ![c] = Return(respondError(@, "invalid character", StatusBadRequest))]
          /\ UNCHANGED <<store, touched, snaps>>
     ELSE LET item == Renamed(req[c].item, req[c].payload.name)
          IN  /\ store' = StoreKV(store, req[c].id, item)
              /\ req' = [req EXCEPT ![c] = Return(JSON([@ EXCEPT !.item = item], StatusOK, item))]
              /\ touched' = touched \cup {req[c].id}
              /\ Observe(store')
  /\ UNCHANGED <<variant, idSeq, issued, created, lastId>>
  /\ Track(c)

(* strconv.Atoi, then store.Load(id) *)
deleteItemLoad(c) ==
  /\ Gin /\ At(c, "delete", "start")
  /\ LET a == Atoi(req[c].rawId)
         l == Load(store, a.val)
     IN  req' = [req EXCEPT ![c] =
                   IF ~a.ok THEN Return(respondError(@, "invalid syntax", StatusBadRequest))
                   ELSE IF ~l.ok THEN Return(respondError(@, "not found", StatusNotFound))
                   ELSE [@ EXCEPT !.at = "loaded", !.id = a.val]]
  /\ UNCHANGED <<variant, store, idSeq, issued, created, touched, lastId, snaps>>
  /\ Track(c)

(* store.Delete(id), then c.Status(204) *)
deleteItemDelete(c) ==
  /\ Gin /\ At(c, "delete", "loaded")
  /\ store' = DeleteKey(store, req[c].id)
  /\ req' = [req EXCEPT ![c] = Return(Status(@, StatusNoContent))]
  /\ touched' = touched \cup {req[c].id}
  /\ Observe(store')
  /\ UNCHANGED <<variant, idSeq, issued, created, lastId>>
  /\ Track(c)

(* GET /fail *)
failRoute(c) ==
  /\ Gin /\ At(c, "fail", "start")
  /\ req' = [req EXCEPT ![c] =
               Return(respondError(@, "simulated server failure", StatusInternalServerError))]
  /\ UNCHANGED <<variant, store, idSeq, issued, created, touched, lastId, snaps>>
  /\ Track(c)

(* GET /panic: the handler panics; the unwinding skips the rest of slogWithTrace
   and stops in the deferred function of recoveryWithOtel *)
panicRoute(c) ==
  /\ Gin /\ At(c, "panic", "start")
  /\ req' = [req EXCEPT ![c] = [@ EXCEPT !.pc = "Recovering", !.at = "-"]]
  /\ UNCHANGED <<variant, store, idSeq, issued, created, touched, lastId, snaps>>
  /\ Track(c)

recoveryWithOtel(c) ==
  /\ Gin /\ req[c].pc = "Recovering"
  /\ req' = [req EXCEPT ![c] = Recovered(@)]
  /\ UNCHANGED <<variant, store, idSeq, issued, created, touched, lastId, snaps>>
  /\ Track(c)

(* ------------- handlers of part_001 / part_002 (net/http) -------------- *)
Orders(S) ==
  {q \in [1..Cardinality(S) -> S] : \A i, j \in 1..Cardinality(S) : i # j => q[i] # q[j]}

(* Decode, then under storeMu: idSeq++, store[id] = item *)
createItemMux(c) ==
  /\ Mux /\ At(c, "create", "start")
  /\ IF ~req[c].payload.valid
     THEN /\ req' = [req EXCEPT ![c] = Return(respondErrorMux(@, "invalid character", StatusBadRequest))]
          /\ UNCHANGED <<idSeq, store, created, lastId, snaps>>
     ELSE LET id == NextId(idSeq)
              item == Item(id, req[c].payload.name)
          IN  /\ idSeq' = id
              /\ store' = StoreKV(store, id, item)
              /\ req' = [req EXCEPT ![c] =
                           Return(JSON([@ EXCEPT !.id = id, !.item = item], StatusCreated, item))]
              /\ created' = StoreKV(created, id, req[c].payload.name)
              /\ lastId' = [lastId EXCEPT ![c] = id]
              /\ Observe(store')
  /\ UNCHANGED <<variant, issued, touched>>
  /\ Track(c)

(* under storeMu.RLock: one pass over the map, in the map's iteration order *)
listItemsMux(c) ==
  /\ Mux /\ At(c, "list", "start")
  /\ \E q \in Orders(DOMAIN store) :
       LET items == [i \in 1..Len(q) |-> store[q[i]]]
       IN  req' = [req EXCEPT ![c] =
                     [Return(JSONList([@ EXCEPT !.items = items], StatusOK, items)) EXCEPT
                        !.snapshot = SeqToSet(items) \in {Contents(s) : s \in snaps[c]}]]
  /\ snaps' = [snaps EXCEPT ![c] = {}]
  /\ UNCHANGED <<variant, store, idSeq, issued, created, touched, lastId>>
  /\ Track(c)

(* itemHandler: strconv.Atoi; getItem: store[id] under RLock *)
getItemMux(c) ==
  /\ Mux /\ At(c, "get", "start")
  /\ LET a == Atoi(req[c].rawId)
         l == Load(store, a.val)
     IN  req' = [req EXCEPT ![c] =
                   IF ~a.ok THEN Return(respondErrorMux(@, "invalid id: invalid syntax", StatusBadRequest))
                   ELSE IF ~l.ok THEN Return(respondErrorMux(@, "not found", StatusNotFound))
                   ELSE Return(JSON(@, StatusOK, l.val))]
  /\ UNCHANGED <<variant, store, idSeq, issued, created, touched, lastId, snaps>>
  /\ Track(c)

(* itemHandler: strconv.Atoi; updateItem: first critical section, item, ok := store[id] *)
updateItemLoadMux(c) ==
  /\ Mux /\ At(c, "update", "start")
  /\ LET a == Atoi(req[c].rawId)
         l == Load(store, a.val)
     IN  req' = [req EXCEPT ![c] =
                   IF ~a.ok THEN Return(respondErrorMux(@, "invalid id: invalid syntax", StatusBadRequest))
                   ELSE IF ~l.ok THEN Return(respondErrorMux(@, "not found", StatusNotFound))
                   ELSE [@ EXCEPT !.at = "loaded", !.id = a.val, !.item = l.val]]
  /\ UNCHANGED <<variant, store, idSeq, issued, created, touched, lastId, snaps>>
  /\ Track(c)

(* updateItem: Decode, then the second critical section, store[id] = item *)
updateItemStoreMux(c) ==
  /\ Mux /\ At(c, "update", "loaded")
  /\ IF ~req[c].payload.valid
     THEN /\ req' = [req EXCEPT ![c] = Return(respondErrorMux(@, "invalid character", StatusBadRequest))]
          /\ UNCHANGED <<store, touched, snaps>>
     ELSE LET item == Renamed(req[c].item, req[c].payload.name)
          IN  /\ store' = StoreKV(store, req[c].id, item)
              /\ req' = [req EXCEPT ![c] = Return(JSON([@ EXCEPT !.item = item], StatusOK, item))]
              /\ touched' = touched \cup {req[c].id}
              /\ Observe(store')
  /\ UNCHANGED <<variant, idSeq, issued, created, lastId>>
  /\ Track(c)

(* itemHandler: strconv.Atoi; deleteItem: check and delete in one critical section *)
deleteItemMux(c) ==
  /\ Mux /\ At(c, "delete", "start")
  /\ LET a == Atoi(req[c].rawId)
         l == Load(store, a.val)
     IN  IF ~a.ok \/ ~l.ok
         THEN /\ req' = [req EXCEPT ![c] =
                           IF ~a.ok
                           THEN Return(respondErrorMux(@, "invalid id: invalid syntax", StatusBadRequest))
                           ELSE Return(respondErrorMux(@, "not found", StatusNotFound))]
              /\ UNCHANGED <<store, touched, snaps>>
         ELSE /\ store' = DeleteKey(store, a.val)
              /\ req' = [req EXCEPT ![c] = Return(Status([@ EXCEPT !.id = a.val], StatusNoContent))]
              /\ touched' = touched \cup {a.val}
              /\ Observe(store')
  /\ UNCHANGED <<variant, idSeq, issued, created, lastId>>
  /\ Track(c)

(* ------------------------------ behaviours ----------------------------- *)
Next ==
  \E c \in Callers :
    \/ Dispatch(c)
    \/ createItemAdd(c)
    \/ createItemStore(c)
    \/ listItems(c)
    \/ getItem(c)
    \/ updateItemLoad(c)
    \/ updateItemStore(c)
    \/ deleteItemLoad(c)
    \/ deleteItemDelete(c)
    \/ failRoute(c)
    \/ panicRoute(c)
    \/ recoveryWithOtel(c)
    \/ createItemMux(c)
    \/ listItemsMux(c)
    \/ getItemMux(c)
    \/ updateItemLoadMux(c)
    \/ updateItemStoreMux(c)
    \/ deleteItemMux(c)

Spec == Init /\ [][Next]_vars

(* the steps of the handler serving caller c's request: the server runs every
   request in a goroutine of its own and the scheduler lets each goroutine
   run; nothing makes a caller send another request *)
Handle(c) ==
  \/ createItemAdd(c) \/ createItemStore(c) \/ listItems(c) \/ getItem(c)
  \/ updateItemLoad(c) \/ updateItemStore(c) \/ deleteItemLoad(c) \/ deleteItemDelete(c)
  \/ failRoute(c) \/ panicRoute(c) \/ recoveryWithOtel(c)
  \/ createItemMux(c) \/ listItemsMux(c) \/ getItemMux(c)
  \/ updateItemLoadMux(c) \/ updateItemStoreMux(c) \/ deleteItemMux(c)

(* the behaviours of at most MaxFairRequests requests, every handler running
   to its end *)
FairDispatch(c) == issued < MaxFairRequests /\ Dispatch(c)
FairNext == \E c \in Callers : FairDispatch(c) \/ Handle(c)
FairSpec == Init /\ [][FairNext]_vars /\ \A c \in Callers : WF_vars(Handle(c))

(* ============================== claims ================================= *)

(* C1: the ids answered to create requests are pairwise distinct, whatever
   the interleaving, and the ids answered to one caller's successive creates
   strictly increase: a create is never answered with an id that an earlier
   answer carried, nor with one that is not above the caller's previous id. *)
C1_DistinctIncreasingIds ==
  [][\A c \in Callers :
       (/\ req[c].op = "create" /\ req[c].pc = "Running"
        /\ req'[c].pc = "Completed" /\ req'[c].status = StatusCreated)
       => /\ req'[c].resp.item.ID \notin DOMAIN created
          /\ req'[c].resp.item.ID > lastId[c]]_vars

(* main.go: caller d holds id 1 between idSeq.Add and store.Store while the
   other caller has been answered 2 and then 3 *)
C1_Witness ==
  \E c, d \in Callers :
    /\ c # d /\ Gin
    /\ req[d].op = "create" /\ req[d].at = "allocated" /\ req[d].id = 1
    /\ lastId[c] = 3 /\ {2, 3} \subseteq DOMAIN created

(* C2: once a delete of X has answered 204 and the update of X racing with it
   has completed too, X is absent from the store. *)
C2_NoResurrection ==
  \A u, d \in Callers :
    (/\ req[u].op = "update" /\ req[u].pc = "Completed"
     /\ req[d].op = "delete" /\ req[d].pc = "Completed"
     /\ req[d].status = StatusNoContent
     /\ req[u].id = req[d].id)
    => req[d].id \notin DOMAIN store

(* C3: a step of a request whose handler panicked changes neither the store,
   nor the counter, nor any other caller's request; the request goes through
   Recovering to Failed and is answered 500, once. *)
C3_PanicIsolated ==
  [][\A c \in Callers :
       (/\ req[c].op = "panic" /\ req[c].pc \in {"Running", "Recovering"}
        /\ req'[c] # req[c])
       => /\ store' = store /\ idSeq' = idSeq
          /\ \A d \in Callers \ {c} : req'[d] = req[d]
          /\ req'[c].pc \in {"Recovering", "Failed"}
          /\ req'[c].pc = "Failed" =>
               (req'[c].status = StatusInternalServerError /\ req'[c].written = 1)]_vars

(* a panic was recovered and answered while another caller's update sits
   between its load and its store *)
C3_Witness ==
  \E c, d \in Callers :
    /\ c # d
    /\ req[c].op = "panic" /\ req[c].pc = "Failed"
    /\ req[c].status = StatusInternalServerError
    /\ req[d].op = "update" /\ req[d].pc = "Running" /\ req[d].at = "loaded"

(* C4: a request in a terminal state has had exactly one response written and
   exactly one log line emitted, and the line carries method, path, status and
   the trace identifiers, with the request's method and status. *)
C4_OneResponseOneLogLine ==
  \A c \in Callers :
    Terminal(req[c]) =>
      /\ req[c].written = 1
      /\ Len(req[c].logs) = 1
      /\ {"method", "path", "status", "trace_id"} \subseteq req[c].logs[1].keys
      /\ req[c].logs[1].method = Method(req[c].op)
      /\ req[c].logs[1].status = req[c].status
      /\ req[c].logs[1].trace = req[c].trace

(* C5: /fail and /panic are both answered 500 with the span marked failed;
   the escape attributes (escaped, type, message, stacktrace) are on the span
   of a panicked request, all four, and on no other span. *)
C5_ServerFaultsMarkSpan ==
  \A c \in Callers :
    LET r == req[c]
        keys == UNION {{a[1] : a \in r.span.events[i].attrs} : i \in 1..Len(r.span.events)}
        escape == {"exception.escaped", "exception.type", "exception.message",
                   "exception.stacktrace"}
    IN  /\ (Terminal(r) /\ r.op = "fail") =>
              (/\ r.status = StatusInternalServerError /\ r.span.status = "Error"
               /\ Len(r.span.events) = 1 /\ keys \cap escape = {})
        /\ (Terminal(r) /\ r.op = "panic") =>
              (/\ r.status = StatusInternalServerError /\ r.span.status = "Error"
               /\ escape \subseteq keys)
        /\ (keys \cap escape # {}) => r.op = "panic"

(* one caller's /fail completed, the other's /panic failed *)
C5_Witness ==
  \E c, d \in Callers :
    /\ req[c].op = "fail" /\ req[c].pc = "Completed"
    /\ req[d].op = "panic" /\ req[d].pc = "Failed"

(* C6: a get, update or delete with a non-numeric id is answered 400 with an
   error event on the span and the span not marked failed; no response in
   400..499 comes with a span marked failed. *)
C6_BadIdNotFailed ==
  \A c \in Callers :
    Terminal(req[c]) =>
      /\ (req[c].op \in {"get", "update", "delete"} /\ ~Atoi(req[c].rawId).ok) =>
           (/\ req[c].status = StatusBadRequest
            /\ Len(req[c].span.events) = 1
            /\ req[c].span.status # "Error")
      /\ (req[c].status \in 400..499) => req[c].span.status # "Error"

(* C7: a get, update or delete that reads the store for a well-formed id the
   store does not hold is answered 404 with an error event on the span and
   the span not marked failed. *)
C7_AbsentIdNotFailed ==
  [][\A c \in Callers :
       (/\ req[c].pc = "Running" /\ req[c].at = "start"
        /\ req[c].op \in {"get", "update", "delete"}
        /\ Atoi(req[c].rawId).ok
        /\ Atoi(req[c].rawId).val \notin DOMAIN store
        /\ req'[c] # req[c])
       => /\ req'[c].pc = "Completed"
          /\ req'[c].status = StatusNotFound
          /\ Len(req'[c].span.events) = 1
          /\ req'[c].span.status # "Error"]_vars

(* C8: every response with a fault status (400, 404, 500) has an error body
   carrying a message, and the message is neither the stack trace nor the
   fault's type name. *)
C8_ErrorBody ==
  \A c \in Callers :
    (Terminal(req[c]) /\ req[c].status >= 400) =>
      /\ req[c].resp.kind \in {"json-error", "text-error"}
      /\ req[c].resp.error # ""
      /\ \A a \in EscapeAttrs :
           a[1] \in {"exception.type", "exception.stacktrace"} => req[c].resp.error # a[2]

(* C9: the sequence a list request returns holds no item twice and is the
   content the store had at one instant between the request's dispatch and
   its return. *)
C9_ListSnapshot ==
  \A c \in Callers :
    (req[c].op = "list" /\ req[c].pc = "Completed") =>
      /\ req[c].snapshot
      /\ \A i, j \in 1..Len(req[c].resp.items) :
           i # j => req[c].resp.items[i].ID # req[c].resp.items[j].ID

(* C10: a get of an id that a create has been answered with, and that no
   update or delete has written, is answered 200 with that id and the name the
   create request carried. *)
C10_GetAfterCreate ==
  [][\A c \in Callers :
       LET a == Atoi(req[c].rawId)
       IN  (/\ req[c].op = "get" /\ req[c].pc = "Running"
            /\ a.ok /\ a.val \in DOMAIN created /\ a.val \notin touched
            /\ req'[c].pc = "Completed")
           => /\ req'[c].status = StatusOK
              /\ req'[c].resp.kind = "item"
              /\ req'[c].resp.item = [ID |-> a.val, Name |-> created[a.val]]]_vars

(* a get answered with the item a create made, the id untouched since *)
C10_Witness ==
  \E c \in Callers :
    /\ req[c].op = "get" /\ req[c].pc = "Completed" /\ req[c].status = StatusOK
    /\ req[c].resp.item.ID \in DOMAIN created \ touched
    /\ req[c].resp.item.Name = created[req[c].resp.item.ID]
    /\ req[c].resp.item.Name = "gadget"

(* C11: an update answered 200 for id with name n leaves the store with the
   entry {id, n} under id, the id of that entry as it was, every other entry
   and the counter as they were, and answers {id, n}; a get of an id that has
   been updated and not deleted is answered with the name of the last update
   answered. *)
C11_UpdateChangesOnlyName ==
  [][\A c \in Callers :
       LET id == req[c].id
           name == req[c].payload.name
           a == Atoi(req[c].rawId)
       IN  /\ (/\ req[c].op = "update" /\ req[c].pc = "Running"
               /\ req'[c].pc = "Completed" /\ req'[c].status = StatusOK)
              => /\ id \in DOMAIN store'
                 /\ store'[id] = [ID |-> id, Name |-> name]
                 /\ id \in DOMAIN store => store'[id].ID = store[id].ID
                 /\ DOMAIN store' \ {id} = DOMAIN store \ {id}
                 /\ \A k \in DOMAIN store \ {id} : store'[k] = store[k]
                 /\ idSeq' = idSeq
                 /\ req'[c].resp.kind = "item"
                 /\ req'[c].resp.item = [ID |-> id, Name |-> name]
           /\ (/\ req[c].op = "get" /\ req[c].pc = "Running" /\ req'[c].pc = "Completed"
               /\ a.ok /\ a.val \in DOMAIN lastName \ DOMAIN deleted)
              => /\ req'[c].status = StatusOK
                 /\ req'[c].resp.item = [ID |-> a.val, Name |-> lastName[a.val]]]_vars

(* a get answered with the name an update gave the item, another item in the
   store beside it *)
C11_Witness ==
  \E c \in Callers :
    /\ req[c].op = "get" /\ req[c].pc = "Completed" /\ req[c].status = StatusOK
    /\ req[c].resp.item.ID \in DOMAIN lastName
    /\ req[c].resp.item.Name = lastName[req[c].resp.item.ID]
    /\ req[c].resp.item.Name # created[req[c].resp.item.ID]
    /\ Cardinality(DOMAIN store) >= 2

(* C12: a get of an id whose delete was answered 204 and took effect with no
   other request in flight is answered 404; a delete of a well-formed id the
   store does not hold completes normally with 404 and changes neither the
   store nor the counter. *)
C12_DeleteThenNotFound ==
  [][\A c \in Callers :
       LET a == Atoi(req[c].rawId)
       IN  /\ (/\ req[c].op = "get" /\ req[c].pc = "Running" /\ req'[c] # req[c]
               /\ a.ok /\ a.val \in DOMAIN deleted /\ deleted[a.val])
              => (req'[c].pc = "Completed" /\ req'[c].status = StatusNotFound)
           /\ (/\ req[c].op = "delete" /\ req[c].pc = "Running" /\ req[c].at = "start"
               /\ req'[c] # req[c]
               /\ a.ok /\ a.val \notin DOMAIN store)
              => /\ req'[c].pc = "Completed"
                 /\ req'[c].status = StatusNotFound
                 /\ store' = store /\ idSeq' = idSeq]_vars

(* the id was created and deleted; one caller's get of it and the other's
   second delete of it were both answered 404 *)
C12_Witness ==
  \E c, d \in Callers, k \in DOMAIN deleted :
    /\ deleted[k] /\ k \in DOMAIN created
    /\ req[c].op = "get" /\ req[c].pc = "Completed"
    /\ Atoi(req[c].rawId).val = k /\ req[c].status = StatusNotFound
    /\ req[d].op = "delete" /\ req[d].pc = "Completed"
    /\ Atoi(req[d].rawId).val = k /\ req[d].status = StatusNotFound

(* C13: a list request that returns with no other request in flight, the
   store not having changed during the call, returns the items created and
   not deleted since, each once, with the name the store holds. *)
C13_QuiescentList ==
  [][\A c \in Callers :
       (/\ req[c].op = "list" /\ req[c].pc = "Running" /\ req'[c].pc = "Completed"
        /\ snaps[c] = {store}
        /\ \A d \in Callers \ {c} : req[d].pc \notin {"Running", "Recovering"})
       => LET items == req'[c].resp.items
              live == DOMAIN created \ DOMAIN deleted
          IN  /\ {items[i].ID : i \in 1..Len(items)} = live
              /\ Len(items) = Cardinality(live)
              /\ \A i \in 1..Len(items) :
                   items[i].ID \in DOMAIN store /\ items[i] = store[items[i].ID]]_vars

(* C14: every key of the store is the ID of the item under it and lies in
   1..idSeq; no two entries carry the same ID. *)
C14_KeysAreIds ==
  \A k \in DOMAIN store :
    /\ store[k].ID = k
    /\ 1 <= k /\ k <= idSeq
    /\ \A j \in DOMAIN store : j # k => store[j].ID # store[k].ID

(* an entry written back by an update after the delete of its id was
   answered, next to an entry created later *)
C14_Witness ==
  \E k \in DOMAIN store :
    /\ k \in DOMAIN deleted /\ k \in DOMAIN lastName
    /\ store[k].Name = lastName[k]
    /\ Cardinality(DOMAIN store) >= 2

(* C15: a get dispatched after a delete of its id was answered 204 observes
   the delete: it is answered 404. *)
C15_GetObservesDelete ==
  [][\A c \in Callers :
       (/\ req[c].op = "get" /\ req[c].pc = "Running" /\ req'[c].pc = "Completed"
        /\ req[c].afterDelete)
       => req'[c].status = StatusNotFound]_vars

(* C16: while no delete of an id has been answered, the store holds for it
   the name sent by the last update of it that was answered 200, whatever
   updates of this or of other ids ran beside it. *)
C16_LastUpdateWins ==
  \A k \in DOMAIN lastName \ DOMAIN deleted :
    k \in DOMAIN store /\ store[k] = [ID |-> k, Name |-> lastName[k]]

(* one caller's update has read the item and not yet written; the other
   caller's update of the same id was answered meanwhile with another name *)
C16_Witness ==
  \E c, d \in Callers :
    /\ c # d
    /\ req[c].op = "update" /\ req[c].pc = "Running" /\ req[c].at = "loaded"
    /\ req[d].op = "update" /\ req[d].pc = "Completed" /\ req[d].status = StatusOK
    /\ req[d].id = req[c].id
    /\ req[c].id \in DOMAIN store
    /\ store[req[c].id].Name = req[d].payload.name
    /\ req[c].item.Name # req[d].payload.name
    /\ req[c].payload.name # req[d].payload.name

(* C17, as stated: a create is answered with the value it took from the
   counter, 1 if it is the first request of the process, an id no create was
   answered with and no delete removed, above every id a create was answered
   with earlier. *)
C17_AboveEveryEarlierAnswer ==
  [][\A c \in Callers :
       (/\ req[c].op = "create" /\ req[c].pc = "Running"
        /\ req'[c].pc = "Completed" /\ req'[c].status = StatusCreated)
       => LET id == req'[c].resp.item.ID
          IN  /\ id = req'[c].id
              /\ issued = 1 => id = 1
              /\ id \notin DOMAIN created \cup DOMAIN deleted
              /\ \A k \in DOMAIN created : id > k]_vars

(* C17, amended: the step of a create that takes its id takes idSeq + 1, 1 from
   a fresh counter, above every id a create was answered with before that
   step, every id deleted and every key of the store; the create is answered
   with that id, which no create was answered with and no delete removed. *)
C17_FreshIdAtAllocation ==
  [][\A c \in Callers :
       /\ (/\ req[c].op = "create" /\ req[c].pc = "Running" /\ req'[c] # req[c]
           /\ idSeq' # idSeq)
          => /\ idSeq' = idSeq + 1
             /\ req'[c].id = idSeq'
             /\ idSeq = 0 => req'[c].id = 1
             /\ \A k \in DOMAIN created \cup DOMAIN deleted \cup DOMAIN store : req'[c].id > k
       /\ (/\ req[c].op = "create" /\ req[c].pc = "Running"
           /\ req'[c].pc = "Completed" /\ req'[c].status = StatusCreated)
          => LET id == req'[c].resp.item.ID
             IN  /\ id = req'[c].id
                 /\ issued = 1 => id = 1
                 /\ id \notin DOMAIN created \cup DOMAIN deleted
                 /\ 1 <= id /\ id <= idSeq']_vars

(* caller c was answered id 1; caller d deleted it and was then answered 2 by
   its create *)
C17_Witness ==
  \E c, d \in Callers :
    /\ c # d
    /\ req[c].op = "create" /\ req[c].pc = "Completed" /\ req[c].resp.item.ID = 1
    /\ req[d].op = "create" /\ req[d].pc = "Completed" /\ req[d].resp.item.ID = 2
    /\ 1 \in DOMAIN deleted /\ 1 \notin DOMAIN store

(* C19: a request answered with a status of 400 or above, handled or
   recovered, has changed neither the store nor the counter. *)
C19_FaultsChangeNothing ==
  \A c \in Callers :
    (Terminal(req[c]) /\ req[c].status >= StatusBadRequest) => ~mutated[c]

(* with an item in the store: a create with a malformed body answered 400, an
   update of an absent id answered 404 *)
C19_Witness ==
  \E c, d \in Callers :
    /\ store # EmptyStore /\ idSeq = Cardinality(DOMAIN store)
    /\ req[c].op = "create" /\ req[c].pc = "Completed" /\ req[c].status = StatusBadRequest
    /\ req[d].op = "update" /\ req[d].pc = "Completed" /\ req[d].status = StatusNotFound
    /\ Atoi(req[d].rawId).ok /\ req[d].payload.valid

(* C20: of the deletes of one id, created once and written by no update, at
   most one is answered 204: a delete is answered 204 only for an id no delete
   was answered 204 for before. *)
C20_OneDeleteSucceeds ==
  [][\A c \in Callers :
       (/\ req[c].op = "delete" /\ req[c].pc = "Running"
        /\ req'[c].pc = "Completed" /\ req'[c].status = StatusNoContent
        /\ req'[c].id \notin DOMAIN lastName)
       => req'[c].id \notin DOMAIN deleted]_vars

(* C18: a request goes Idle, Running, then Completed, or Running,
   Recovering, Failed.  Recovering is entered only from Running, by the
   request that panics, with nothing answered yet; a request answered with a
   handled fault goes to Completed; Recovering is left only for Failed, with
   status 500, and Failed is entered only from Recovering; a terminal request
   stays as it is until the caller's next request replaces it; and every
   request in flight reaches a terminal state. *)
C18_Pipeline ==
  /\ [][\A c \in Callers :
          /\ req[c].pc = "Idle" => req'[c].pc \in {"Idle", "Running"}
          /\ req[c].pc = "Running" => req'[c].pc \in {"Running", "Completed", "Recovering"}
          /\ (req[c].pc # "Recovering" /\ req'[c].pc = "Recovering")
             => /\ req[c].pc = "Running" /\ req[c].op = "panic"
                /\ req'[c].status = 0 /\ req'[c].written = 0
          /\ (req[c].pc = "Running" /\ req'[c].status >= StatusBadRequest)
             => req'[c].pc = "Completed"
          /\ req[c].pc = "Recovering"
             => \/ req'[c] = req[c]
                \/ req'[c].pc = "Failed" /\ req'[c].status = StatusInternalServerError
          /\ (req[c].pc # "Failed" /\ req'[c].pc = "Failed") => req[c].pc = "Recovering"
          /\ Terminal(req[c])
             => \/ req'[c] = req[c]
                \/ /\ req'[c].pc = "Running" /\ req'[c].at = "start"
                   /\ req'[c].status = 0 /\ issued' = issued + 1]_vars
  /\ \A c \in Callers : (req[c].pc \in {"Running", "Recovering"}) ~> Terminal(req[c])

(* one request recovered from its panic and answered 500, the other caller's
   /fail answered 500 by its handler *)
C18_Witness ==
  \E c, d \in Callers :
    /\ req[c].op = "panic" /\ req[c].pc = "Failed"
    /\ req[c].status = StatusInternalServerError
    /\ req[d].op = "fail" /\ req[d].pc = "Completed"
    /\ req[d].status = StatusInternalServerError

====
